---- MODULE Spec2Model ----
(***************************************************************************)
(* A model of the skew heap of src/skewer.go: the node arena with merge    *)
(* and copyNode, the SkewHeap container (New, Put, Take, Top, Merge), and  *)
(* its mutex.  Spec runs Put, Take and Merge on three heaps and SpecQueue   *)
(* runs Put, Take and Top on one heap, one operation at a time, each as    *)
(* one step; SpecNode applies node.merge and node.copyNode to the trees    *)
(* Spec builds.  SpecConc runs Put, Take and Top, and SpecMerge Put, Take  *)
(* and Merge, from several goroutines, one step per statement that reads   *)
(* or writes shared memory; SpecMergeFair is SpecMerge under a fair        *)
(* scheduler.  SpecSelf fills one heap and merges it with itself from      *)
(* several goroutines; SpecSelfFair is SpecSelf under a fair scheduler.    *)
(***************************************************************************)
EXTENDS Integers, Sequences, FiniteSets

\* ------------------------------------------------------------ bounds
\* Number of node cells the arena holds (live cells over all heaps).
MaxCells == 6
\* SpecQueue: the largest item put, and the size a heap is filled to.
MaxItem == 2
MaxSize == 4
\* Spec: the largest item put, and the size Put fills a heap to.
MaxPutItem == 1
MaxPut == 2
\* SpecConc: the number of operations each goroutine calls.
MaxOps == 2
\* SpecMerge: the number of operations each goroutine calls.
MaxCalls == 1

\* ------------------------------------------------------------ items
\* The SkewItem of the package's example: an int whose priority is its
\* negation, so that the largest item leaves the heap first.
Items == 0 .. MaxItem
\* The nil interface value (no item).
NoItem == 0 - 1

Priority(item) == 0 - item

\* ------------------------------------------------------------ nodes
\* The nil *node.
NULL == 0
Addr == 1 .. MaxCells
\* A cell no pointer leads to: the garbage collector has it.
FreeCell == [left |-> NULL, right |-> NULL, value |-> NoItem]

Heaps == {"a", "b", "c"}
\* The mutex of a heap that nobody holds.
Unlocked == "none"

VARIABLES
  cells,   \* the node arena: Addr -> [left, right, value]
  size,    \* SkewHeap.size of each heap
  root,    \* SkewHeap.root of each heap
  mutex,   \* who holds SkewHeap.mutex of each heap
  panic,   \* a nil pointer was dereferenced: the program is dead
  last,    \* the last operation that returned, and what it returned
  net,     \* per heap: the items put minus the items taken, as a bag
  run,     \* SpecQueue: the puts and takes since the heap was new
  pc,      \* SpecConc: where each goroutine is
  loc      \* SpecConc: each goroutine's local variables

vars == <<cells, size, root, mutex, panic, last, net, run, pc, loc>>

\* priority that does not look at the item.
priorityMutant(n) == 0

\* node.priority()
priority(n) == Priority(n.value)

\* Less with the comparison turned round.
LessMutant(c, i, j) == priority(c[i]) > priority(c[j])

\* byPriority.Less on two nodes of the arena c.
Less(c, i, j) == priority(c[i]) < priority(c[j])

IsFree(c, a) == c[a].value = NoItem

\* The only element of a set of one element.
Only(S) == CHOOSE x \in S : TRUE

\* The address a new(node) gets: one that holds no node.
Alloc(c) ==
  Only({ (CHOOSE a \in free : \A b \in free : a <= b) :
         free \in { {a \in DOMAIN k : IsFree(k, a)} : k \in {c} } })

FreeCount(c) == Cardinality({a \in Addr : IsFree(c, a)})

\* The cells reachable from the pointers in S.
RECURSIVE Reach(_, _)
Reach(c, S) ==
  LET T == (S \cup {c[a].left : a \in S \ {NULL}}
              \cup {c[a].right : a \in S \ {NULL}}) \ {NULL}
  IN IF T = S \ {NULL} THEN T ELSE Reach(c, T)

\* The cells of the tree at n that are not in seen yet, in preorder, after seen.
RECURSIVE Preorder(_, _, _)
Preorder(c, n, seen) ==
  IF n = NULL \/ \E i \in 1 .. Len(seen) : seen[i] = n THEN seen
  ELSE Preorder(c, c[n].right, Preorder(c, c[n].left, Append(seen, n)))

RECURSIVE PreorderAll(_, _, _)
PreorderAll(c, ptrs, seen) ==
  IF ptrs = <<>> THEN seen
  ELSE PreorderAll(c, Tail(ptrs), Preorder(c, Head(ptrs), seen))

\* Garbage collection.  A Go program cannot tell one address from another, and
\* a cell no pointer leads to is gone: the arena is kept up to the names of the
\* addresses, its live cells numbered in the order the pointers ptrs reach
\* them.  Gives the arena and the pointers ptrs in the new numbering.
Collect(c, ptrs) ==
  LET ord == PreorderAll(c, ptrs, <<>>)
      new(n) == IF n = NULL THEN NULL ELSE CHOOSE i \in 1 .. Len(ord) : ord[i] = n
  IN [cells |-> [a \in Addr |->
                   IF a <= Len(ord)
                   THEN [left |-> new(c[ord[a]].left), right |-> new(c[ord[a]].right),
                         value |-> c[ord[a]].value]
                   ELSE FreeCell],
      ptrs |-> [i \in 1 .. Len(ptrs) |-> new(ptrs[i])]]

\* ------------------------------------------------------------ node.merge
\* The first loop without node.right = nil: the right subtrees stay on.
RECURSIVE CutPathsMutant(_, _, _)
CutPathsMutant(c, todo, nodes) ==
  IF todo = <<>> THEN [cells |-> c, nodes |-> nodes]
  ELSE LET node == Head(todo)
           rest == Tail(todo)
       IN IF c[node].right # NULL
          THEN CutPathsMutant(c, Append(rest, c[node].right), Append(nodes, node))
          ELSE CutPathsMutant(c, rest, Append(nodes, node))

\* The first loop of merge: cut the right subtree off every node of the two
\* right spines, collecting the nodes in the order they leave the todo list.
RECURSIVE CutPaths(_, _, _)
CutPaths(c, todo, nodes) ==
  IF todo = <<>> THEN [cells |-> c, nodes |-> nodes]
  ELSE LET node == Head(todo)
           rest == Tail(todo)
       IN IF c[node].right # NULL
          THEN CutPaths([c EXCEPT ![node].right = NULL],
                        Append(rest, c[node].right), Append(nodes, node))
          ELSE CutPaths(c, rest, Append(nodes, node))

\* The sequence s without its i-th element.
DropAt(s, i) == SubSeq(s, 1, i - 1) \o SubSeq(s, i + 1, Len(s))

\* merge without its sort: the nodes stay in the order they were cut.
SortedMutant(c, nodes) == {nodes}

\* sort.Sort(byPriority(nodes)): every order of the nodes that Less does not
\* contradict.  sort.Sort is not stable, so nodes of equal priority may come
\* out in any order.
RECURSIVE Sorted(_, _)
Sorted(c, nodes) ==
  IF nodes = <<>> THEN {<<>>}
  ELSE UNION { { <<nodes[i]>> \o s : s \in Sorted(c, DropAt(nodes, i)) } :
               i \in { k \in 1 .. Len(nodes) :
                         \A m \in 1 .. Len(nodes) : ~Less(c, nodes[m], nodes[k]) } }

\* The second loop without prev.right = prev.left: the left subtree is lost.
RECURSIVE RecombineMutant(_, _)
RecombineMutant(c, nodes) ==
  IF Len(nodes) > 1
  THEN LET node == nodes[Len(nodes)]
           front == SubSeq(nodes, 1, Len(nodes) - 1)
           prev == front[Len(front)]
       IN RecombineMutant([c EXCEPT ![prev].left = node], front)
  ELSE [cells |-> c, root |-> nodes[1]]

\* The second loop of merge: hang the last node under the one before it,
\* whose left subtree moves to the right.
RECURSIVE Recombine(_, _)
Recombine(c, nodes) ==
  IF Len(nodes) > 1
  THEN LET node == nodes[Len(nodes)]
           front == SubSeq(nodes, 1, Len(nodes) - 1)
           prev == front[Len(front)]
       IN Recombine([c EXCEPT ![prev].right = c[prev].left, ![prev].left = node],
                    front)
  ELSE [cells |-> c, root |-> nodes[1]]

\* heap.merge(other) in the arena c: the arenas and roots it may end with.
merge(c, heap, other) ==
  IF heap = NULL THEN {[cells |-> c, root |-> other]}
  ELSE IF other = NULL THEN {[cells |-> c, root |-> heap]}
  ELSE LET cut == CutPaths(c, <<heap, other>>, <<>>)
       IN { Recombine(cut.cells, s) : s \in Sorted(cut.cells, cut.nodes) }

\* ------------------------------------------------------------ node.copyNode
\* copyNode that hands back the node it was given.
copyNodeMutant(c, src) == [cells |-> c, root |-> src]

\* copyNode that copies the node and shares its subtrees.
copyNodeShallow(c, src) ==
  IF src = NULL THEN [cells |-> c, root |-> NULL]
  ELSE LET newNode == Alloc(c)
       IN [cells |-> [c EXCEPT ![newNode] = c[src]], root |-> newNode]

\* copyNode that copies left to right and right to left.
RECURSIVE copyNodeMirror(_, _)
copyNodeMirror(c, src) ==
  IF src = NULL THEN [cells |-> c, root |-> NULL]
  ELSE Only({ Only({ Only({ [cells |-> [r.cells EXCEPT ![newNode] =
                                        [left |-> r.root, right |-> l.root,
                                         value |-> c[src].value]],
                            root |-> newNode] :
                            newNode \in {Alloc(r.cells)} }) :
                     r \in {copyNodeMirror(l.cells, c[src].right)} }) :
              l \in {copyNodeMirror(c, c[src].left)} })

RECURSIVE copyNode(_, _)
copyNode(c, src) ==
  IF src = NULL THEN [cells |-> c, root |-> NULL]
  ELSE Only({ Only({ Only({ [cells |-> [r.cells EXCEPT ![newNode] =
                                        [left |-> l.root, right |-> r.root,
                                         value |-> c[src].value]],
                            root |-> newNode] :
                            newNode \in {Alloc(r.cells)} }) :
                     r \in {copyNode(l.cells, c[src].right)} }) :
              l \in {copyNode(c, c[src].left)} })

\* The number of nodes of the tree at n.
RECURSIVE Count(_, _)
Count(c, n) ==
  IF n = NULL THEN 0 ELSE 1 + Count(c, c[n].left) + Count(c, c[n].right)

\* The tree at n as a value: <<>> for nil, else <<left, item, right>>.
RECURSIVE Tree(_, _)
Tree(c, n) ==
  IF n = NULL THEN <<>> ELSE <<Tree(c, c[n].left), c[n].value, Tree(c, c[n].right)>>

\* ------------------------------------------------------------ bags of items
EmptyBag == [i \in Items |-> 0]
BagAdd(b, i) == [b EXCEPT ![i] = @ + 1]
BagDel(b, i) == [b EXCEPT ![i] = @ - 1]
BagSum(b1, b2) == [i \in Items |-> b1[i] + b2[i]]
BagSize(b) ==
  LET RECURSIVE Sum(_)
      Sum(S) == IF S = {} THEN 0
                ELSE LET i == CHOOSE j \in S : TRUE IN b[i] + Sum(S \ {i})
  IN Sum(Items)
\* The items the tree at n holds, as a bag.
RECURSIVE TreeBag(_, _)
TreeBag(c, n) ==
  IF n = NULL THEN EmptyBag
  ELSE BagAdd(BagSum(TreeBag(c, c[n].left), TreeBag(c, c[n].right)), c[n].value)

\* ------------------------------------------------------------ New
\* New(): an empty heap.
NewSize == 0
NewRoot == NULL

\* What an operation leaves in last: its name, its heap h (and, for Merge, its
\* other operand o), the item and the success it returned, and tops, the
\* number (up to 2) of Top calls that ran right before it.
Did(op, h, o, val, ok, tops) ==
  [op |-> op, h |-> h, o |-> o, val |-> val, ok |-> ok, tops |-> tops]

NoOp == Did("New", "a", "a", NoItem, TRUE, 0)

\* The history of a heap that is new: n puts, then the items taken in outs;
\* on is FALSE once the history is no longer n puts followed by takes, and
\* failed says that one of the first n takes returned "empty".
NewRun == [on |-> TRUE, n |-> 0, outs |-> <<>>, failed |-> FALSE]
OffRun == [on |-> FALSE, n |-> 0, outs |-> <<>>, failed |-> FALSE]

Init ==
  /\ cells = [a \in Addr |-> FreeCell]
  /\ size = [h \in Heaps |-> NewSize]
  /\ root = [h \in Heaps |-> NewRoot]
  /\ mutex = [h \in Heaps |-> Unlocked]
  /\ panic = FALSE
  /\ last = NoOp
  /\ net = [h \in Heaps |-> EmptyBag]
  /\ run = NewRun
  /\ pc = <<>>
  /\ loc = <<>>

\* The heaps in the order the collector visits them.
HeapSeq == <<"a", "b", "c">>
HeapAt(h) == CHOOSE i \in 1 .. Len(HeapSeq) : HeapSeq[i] = h

\* The arena c and the roots r after a collection.
Store(c, r) ==
  LET g == Collect(c, [i \in 1 .. Len(HeapSeq) |-> r[HeapSeq[i]]])
  IN /\ cells' = g.cells
     /\ root' = [h \in Heaps |-> g.ptrs[HeapAt(h)]]

\* ------------------------------------------------------------ Put
\* Put that makes the new node the root whatever the size.
PutRootMutant(c, sz, rt, newNode) == {[cells |-> c, root |-> newNode]}

\* The root Put stores: the new node when the heap's size is 0, else the
\* merge of the root with the new node.
PutRoot(c, sz, rt, newNode) ==
  IF sz = 0 THEN {[cells |-> c, root |-> newNode]} ELSE merge(c, rt, newNode)

\* Put without its size++.
PutSizeMutant(sz) == sz

\* The size Put stores.
PutSize(sz) == sz + 1

\* heap.Put(value), whole.
Put(h, value) ==
  /\ mutex[h] = Unlocked
  /\ FreeCount(cells) > 0
  /\ LET newNode == Alloc(cells)
         c1 == [cells EXCEPT ![newNode] =
                  [left |-> NULL, right |-> NULL, value |-> value]]
     IN \E r \in PutRoot(c1, size[h], root[h], newNode) :
          Store(r.cells, [root EXCEPT ![h] = r.root])
  /\ size' = [size EXCEPT ![h] = PutSize(size[h])]
  /\ UNCHANGED <<mutex, panic>>

\* ------------------------------------------------------------ Take
\* Take that forgets the old root's right subtree.
TakeRootMutant(c, rt) == merge(c, c[rt].left, NULL)

\* The root Take stores: the merge of the old root's two subtrees.
TakeRoot(c, rt) == merge(c, c[rt].left, c[rt].right)

\* Take without its size--.
TakeSizeMutant(sz) == sz

\* The size Take stores.
TakeSize(sz) == sz - 1

\* Take that reads its value below the old root.
TakeValueMutant(c, rt) ==
  IF c[rt].left # NULL THEN c[c[rt].left].value ELSE c[rt].value

\* The value Take returns: the old root's.
TakeValue(c, rt) == c[rt].value

\* heap.Take() of a heap whose size is > 0: returns (value, nil).
TakeOk(h, value) ==
  /\ mutex[h] = Unlocked
  /\ size[h] > 0
  /\ root[h] # NULL
  /\ value = TakeValue(cells, root[h])
  /\ \E r \in TakeRoot(cells, root[h]) :
       Store(r.cells, [root EXCEPT ![h] = r.root])
  /\ size' = [size EXCEPT ![h] = TakeSize(size[h])]
  /\ UNCHANGED <<mutex, panic>>

\* heap.Take() of a heap whose size is 0: returns (nil, "empty").
TakeEmpty(h) ==
  /\ mutex[h] = Unlocked
  /\ ~(size[h] > 0)
  /\ UNCHANGED <<cells, size, root, mutex, panic>>

\* ------------------------------------------------------------ Top
\* The value Top returns: the root's.
TopValue(c, rt) == c[rt].value

\* heap.Top() of a heap whose size is > 0: returns (value, nil).
TopOk(h, value) ==
  /\ size[h] > 0
  /\ root[h] # NULL
  /\ value = TopValue(cells, root[h])
  /\ UNCHANGED <<cells, size, root, mutex, panic>>

\* heap.Top() of a heap whose size is 0: returns (nil, "empty").
TopEmpty(h) ==
  /\ ~(size[h] > 0)
  /\ UNCHANGED <<cells, size, root, mutex, panic>>

\* ------------------------------------------------------------ Merge
\* Merge that adds the first size twice.
MergeSizeMutant(sizeA, sizeB) == sizeA + sizeA

\* The size of the heap Merge returns.
MergeSize(sizeA, sizeB) == NewSize + sizeA + sizeB

\* The caller's variable that receives the heap Merge returns.
Result == "c"

\* c = x.Merge(*y), whole: both operands copied, the copies merged into a
\* new heap.
Merge(x, y) ==
  /\ mutex[x] = Unlocked
  /\ mutex[y] = Unlocked
  /\ Count(cells, root[x]) + Count(cells, root[y]) <= FreeCount(cells)
  /\ LET A == copyNode(cells, root[x])
         B == copyNode(A.cells, root[y])
     IN \E r \in merge(B.cells, A.root, B.root) :
          Store(r.cells, [root EXCEPT ![Result] = r.root])
  /\ size' = [size EXCEPT ![Result] = MergeSize(size[x], size[y])]
  /\ UNCHANGED <<mutex, panic>>

\* ------------------------------------------------------------ Spec
\* The operations on three heaps, one at a time.  last is the operation that
\* returned last; net is, per heap, the bag of the items it was given (by Put,
\* or by Merge from its operands) and has not given back.
DoPut ==
  \E h \in Heaps, v \in 0 .. MaxPutItem :
    /\ size[h] < MaxPut
    /\ Put(h, v)
    /\ last' = Did("Put", h, h, NoItem, TRUE, 0)
    /\ net' = [net EXCEPT ![h] = BagAdd(@, v)]
    /\ UNCHANGED <<run, pc, loc>>

DoTake ==
  \E h \in Heaps, v \in Items :
    /\ TakeOk(h, v)
    /\ last' = Did("Take", h, h, NoItem, TRUE, 0)
    /\ net' = [net EXCEPT ![h] = BagDel(@, v)]
    /\ UNCHANGED <<run, pc, loc>>

DoMerge ==
  \E x \in Heaps, y \in Heaps :
    /\ Merge(x, y)
    /\ last' = Did("Merge", x, y, NoItem, TRUE, 0)
    /\ net' = [net EXCEPT ![Result] = BagSum(net[x], net[y])]
    /\ UNCHANGED <<run, pc, loc>>

Next == DoPut \/ DoTake \/ DoMerge

Spec == Init /\ [][Next]_vars

\* ------------------------------------------------------------ SpecQueue
\* Put, Take and Top on one heap, one at a time, with what each returned.
Q == "a"

\* The Top calls that ran right before the operation now returning.
Tops == IF last.op = "Top" THEN (IF last.tops < 2 THEN last.tops + 1 ELSE 2) ELSE 0

QPut ==
  \E v \in Items :
    /\ size[Q] < MaxSize
    /\ Put(Q, v)
    /\ last' = Did("Put", Q, Q, v, TRUE, Tops)
    /\ net' = [net EXCEPT ![Q] = BagAdd(@, v)]
    /\ run' = IF run.on /\ run.outs = <<>> THEN [run EXCEPT !.n = @ + 1] ELSE OffRun
    /\ UNCHANGED <<pc, loc>>

QTake ==
  \E v \in Items :
    /\ TakeOk(Q, v)
    /\ last' = Did("Take", Q, Q, v, TRUE, Tops)
    /\ net' = [net EXCEPT ![Q] = BagDel(@, v)]
    /\ run' = IF run.on /\ Len(run.outs) < run.n
              THEN [run EXCEPT !.outs = Append(@, v)] ELSE OffRun
    /\ UNCHANGED <<pc, loc>>

QTakeEmpty ==
  /\ TakeEmpty(Q)
  /\ last' = Did("Take", Q, Q, NoItem, FALSE, Tops)
  /\ run' = IF run.on /\ Len(run.outs) < run.n
            THEN [run EXCEPT !.failed = TRUE] ELSE run
  /\ UNCHANGED <<net, pc, loc>>

QTop ==
  \E v \in Items :
    /\ TopOk(Q, v)
    /\ last' = Did("Top", Q, Q, v, TRUE, Tops)
    /\ UNCHANGED <<net, run, pc, loc>>

QTopEmpty ==
  /\ TopEmpty(Q)
  /\ last' = Did("Top", Q, Q, NoItem, FALSE, Tops)
  /\ UNCHANGED <<net, run, pc, loc>>

NextQueue == QPut \/ QTake \/ QTakeEmpty \/ QTop \/ QTopEmpty

SpecQueue == Init /\ [][NextQueue]_vars

\* ------------------------------------------------------------ SpecConc
\* Goroutines that call Put, Take and Top on one heap, each call one step
\* per statement that reads or writes the heap's fields or its mutex.  What
\* merge writes inside nodes is read by nobody outside the mutex, so a root
\* assignment, merge included, is one step.
Procs == {"p1", "p2"}

Idle == [value |-> NoItem, done |-> 0]

InitConc ==
  /\ cells = [a \in Addr |-> FreeCell]
  /\ size = [h \in Heaps |-> NewSize]
  /\ root = [h \in Heaps |-> NewRoot]
  /\ mutex = [h \in Heaps |-> Unlocked]
  /\ panic = FALSE
  /\ last = NoOp
  /\ net = [h \in Heaps |-> EmptyBag]
  /\ run = NewRun
  /\ pc = [p \in Procs |-> "idle"]
  /\ loc = [p \in Procs |-> Idle]

\* A Lock that does not wait.
CanLockMutant(m) == TRUE

\* mutex.Lock() returns once nobody holds the mutex.
CanLock(m) == m = Unlocked

\* The goroutine p calls an operation: it goes to the operation's first statement.
Call(p, to, value) ==
  /\ ~panic
  /\ pc[p] = "idle"
  /\ loc[p].done < MaxOps
  /\ pc' = [pc EXCEPT ![p] = to]
  /\ loc' = [loc EXCEPT ![p].value = value]
  /\ UNCHANGED <<cells, size, root, mutex, panic, last, net, run>>

\* The operation of p returns.
Return(p) ==
  /\ pc' = [pc EXCEPT ![p] = "idle"]
  /\ loc' = [loc EXCEPT ![p] = [value |-> NoItem, done |-> loc[p].done + 1]]

\* heap.lock() at the statement at, which leads to the statement to.
Lock(p, at, to) ==
  /\ ~panic
  /\ pc[p] = at
  /\ CanLock(mutex[Q])
  /\ mutex' = [mutex EXCEPT ![Q] = p]
  /\ pc' = [pc EXCEPT ![p] = to]
  /\ UNCHANGED <<cells, size, root, panic, last, net, run, loc>>

CallPut(p) == \E v \in 0 .. MaxPutItem : Call(p, "put_lock", v)

PutLock(p) == Lock(p, "put_lock", "put_root")

\* if heap.Size() == 0 { heap.root = newNode } else { heap.root = heap.root.merge(newNode) }
PutStore(p) ==
  /\ ~panic
  /\ pc[p] = "put_root"
  /\ FreeCount(cells) > 0
  /\ LET newNode == Alloc(cells)
         c1 == [cells EXCEPT ![newNode] =
                  [left |-> NULL, right |-> NULL, value |-> loc[p].value]]
     IN \E r \in PutRoot(c1, size[Q], root[Q], newNode) :
          Store(r.cells, [root EXCEPT ![Q] = r.root])
  /\ pc' = [pc EXCEPT ![p] = "put_size"]
  /\ UNCHANGED <<size, mutex, panic, last, net, run, loc>>

\* heap.size++
PutCount(p) ==
  /\ ~panic
  /\ pc[p] = "put_size"
  /\ size' = [size EXCEPT ![Q] = PutSize(size[Q])]
  /\ pc' = [pc EXCEPT ![p] = "put_unlock"]
  /\ UNCHANGED <<cells, root, mutex, panic, last, net, run, loc>>

\* heap.unlock(), and Put returns.
PutUnlock(p) ==
  /\ ~panic
  /\ pc[p] = "put_unlock"
  /\ mutex' = [mutex EXCEPT ![Q] = Unlocked]
  /\ net' = [net EXCEPT ![Q] = BagAdd(@, loc[p].value)]
  /\ Return(p)
  /\ UNCHANGED <<cells, size, root, panic, last, run>>

CallTake(p) == Call(p, "take_lock", NoItem)

TakeLock(p) == Lock(p, "take_lock", "take_root")

\* if heap.Size() > 0 { value := heap.root.value; heap.root = heap.root.left.merge(heap.root.right)
TakeStore(p) ==
  /\ ~panic
  /\ pc[p] = "take_root"
  /\ size[Q] > 0
  /\ root[Q] # NULL
  /\ \E r \in TakeRoot(cells, root[Q]) :
       Store(r.cells, [root EXCEPT ![Q] = r.root])
  /\ loc' = [loc EXCEPT ![p].value = TakeValue(cells, root[Q])]
  /\ pc' = [pc EXCEPT ![p] = "take_size"]
  /\ UNCHANGED <<size, mutex, panic, last, net, run>>

\* the size is not > 0: on to the unlock before return nil, errors.New("empty")
TakeNone(p) ==
  /\ ~panic
  /\ pc[p] = "take_root"
  /\ ~(size[Q] > 0)
  /\ pc' = [pc EXCEPT ![p] = "take_empty"]
  /\ UNCHANGED <<cells, size, root, mutex, panic, last, net, run, loc>>

\* heap.size--
TakeCount(p) ==
  /\ ~panic
  /\ pc[p] = "take_size"
  /\ size' = [size EXCEPT ![Q] = TakeSize(size[Q])]
  /\ pc' = [pc EXCEPT ![p] = "take_unlock"]
  /\ UNCHANGED <<cells, root, mutex, panic, last, net, run, loc>>

\* heap.unlock(); return value, nil
TakeUnlock(p) ==
  /\ ~panic
  /\ pc[p] = "take_unlock"
  /\ mutex' = [mutex EXCEPT ![Q] = Unlocked]
  /\ net' = [net EXCEPT ![Q] = BagDel(@, loc[p].value)]
  /\ Return(p)
  /\ UNCHANGED <<cells, size, root, panic, last, run>>

\* heap.unlock(); return nil, errors.New("empty")
TakeUnlockEmpty(p) ==
  /\ ~panic
  /\ pc[p] = "take_empty"
  /\ mutex' = [mutex EXCEPT ![Q] = Unlocked]
  /\ Return(p)
  /\ UNCHANGED <<cells, size, root, panic, last, net, run>>

CallTop(p) == Call(p, "top_size", NoItem)

\* if heap.Size() > 0: the size is read, and is > 0
TopSizeSome(p) ==
  /\ ~panic
  /\ pc[p] = "top_size"
  /\ size[Q] > 0
  /\ pc' = [pc EXCEPT ![p] = "top_root"]
  /\ UNCHANGED <<cells, size, root, mutex, panic, last, net, run, loc>>

\* the size is read, and is not > 0: return nil, errors.New("empty")
TopSizeNone(p) ==
  /\ ~panic
  /\ pc[p] = "top_size"
  /\ ~(size[Q] > 0)
  /\ Return(p)
  /\ UNCHANGED <<cells, size, root, mutex, panic, last, net, run>>

\* return heap.root.value, nil
TopRoot(p) ==
  /\ ~panic
  /\ pc[p] = "top_root"
  /\ root[Q] # NULL
  /\ Return(p)
  /\ UNCHANGED <<cells, size, root, mutex, panic, last, net, run>>

\* heap.root.value with heap.root nil: a nil pointer dereference.
TopPanic(p) ==
  /\ ~panic
  /\ pc[p] = "top_root"
  /\ root[Q] = NULL
  /\ panic' = TRUE
  /\ UNCHANGED <<cells, size, root, mutex, last, net, run, pc, loc>>

NextConc ==
  \E p \in Procs :
    \/ CallPut(p) \/ PutLock(p) \/ PutStore(p) \/ PutCount(p) \/ PutUnlock(p)
    \/ CallTake(p) \/ TakeLock(p) \/ TakeStore(p) \/ TakeNone(p) \/ TakeCount(p)
    \/ TakeUnlock(p) \/ TakeUnlockEmpty(p)
    \/ CallTop(p) \/ TopSizeSome(p) \/ TopSizeNone(p) \/ TopRoot(p) \/ TopPanic(p)

SpecConc == InitConc /\ [][NextConc]_vars

\* ------------------------------------------------------------ SpecMerge
\* Goroutines that call Put, Take and Merge on the heaps a and b.  Merge has
\* value receivers: the call copies the structs *heap and *other, size and
\* root, before any lock is taken, and the two goroutines it starts lock the
\* mutex the copies point to and then read the copies.  The heap Merge returns
\* is dropped by its caller.
Operands == {"a", "b"}

\* The two goroutines of a Merge: A copies heap, B copies other.
Gos == {"A", "B"}
Go(p, g) == p \o g

\* The tree t, <<>> or <<left, item, right>>, as nodes of the arena c.
RECURSIVE Plant(_, _)
Plant(c, t) ==
  IF t = <<>> THEN [cells |-> c, root |-> NULL]
  ELSE Only({ Only({ Only({ [cells |-> [r.cells EXCEPT ![newNode] =
                                        [left |-> l.root, right |-> r.root, value |-> t[2]]],
                            root |-> newNode] :
                            newNode \in {Alloc(r.cells)} }) :
                     r \in {Plant(l.cells, t[3])} }) :
              l \in {Plant(c, t[1])} })

RECURSIVE TreeCount(_)
TreeCount(t) == IF t = <<>> THEN 0 ELSE 1 + TreeCount(t[1]) + TreeCount(t[3])

RECURSIVE TreeItems(_)
TreeItems(t) ==
  IF t = <<>> THEN EmptyBag
  ELSE BagAdd(BagSum(TreeItems(t[1]), TreeItems(t[3])), t[2])

\* An arena of n cells, all free.
Blank(n) == [a \in 1 .. n |-> FreeCell]

\* The arena c with n more cells.
Room(c, n) == [a \in 1 .. (MaxCells + n) |-> IF a \in Addr THEN c[a] ELSE FreeCell]

\* src.copyNode() in the arena c: the copy is made of new nodes that only the
\* goroutine that made it can reach, and is kept as the tree it is.
Clone(c, src) ==
  Only({ Tree(k.cells, k.root) :
         k \in { copyNode(room, src) : room \in {Room(c, Count(c, src))} } })

\* rootA.merge(rootB) that returns rootA and leaves rootB out.
MergeClonesMutant(rootA, rootB) == {rootA}

\* rootA.merge(rootB) on two copies: the trees it may return.
MergeClones(rootA, rootB) ==
  UNION { UNION { { Tree(r.cells, r.root) : r \in merge(B.cells, A.root, B.root) } :
                  B \in {Plant(A.cells, rootB)} } :
          A \in {Plant(Blank(TreeCount(rootA) + TreeCount(rootB)), rootA)} }

\* A struct SkewHeap as a Merge holds it: size, and root as a pointer.
NoHeap == [size |-> 0, root |-> NULL]
\* sizeA and rootA (sizeB and rootB), and the new heap, root as a tree.
NoCopy == [size |-> 0, root |-> <<>>]

IdleMerge ==
  [done |-> 0, h |-> "a", value |-> NoItem,
   arg |-> [g \in Gos |-> "a"], heap |-> [g \in Gos |-> NoHeap],
   go |-> [g \in Gos |-> "off"], copy |-> [g \in Gos |-> NoCopy], ready |-> 0,
   newHeap |-> NoCopy]

\* The item each operand is given before the goroutines start.
FillItem(h) == IF h = "a" THEN 0 ELSE MaxPutItem

\* a and b as the setup of TestMerge leaves them, one Put each.
InitMerge ==
  /\ cells = [k \in Addr |->
                IF \E h \in Operands : HeapAt(h) = k
                THEN [left |-> NULL, right |-> NULL, value |-> FillItem(HeapSeq[k])]
                ELSE FreeCell]
  /\ size = [h \in Heaps |-> IF h \in Operands THEN PutSize(NewSize) ELSE NewSize]
  /\ root = [h \in Heaps |-> IF h \in Operands THEN HeapAt(h) ELSE NewRoot]
  /\ mutex = [h \in Heaps |-> Unlocked]
  /\ panic = FALSE
  /\ last = NoOp
  /\ net = [h \in Heaps |-> IF h \in Operands THEN BagAdd(EmptyBag, FillItem(h)) ELSE EmptyBag]
  /\ run = NewRun
  /\ pc = [p \in Procs |-> "idle"]
  /\ loc = [p \in Procs |-> IdleMerge]

\* The goroutines and their struct copies in the order the collector visits them.
ProcSeq == <<"p1", "p2">>
GoSeq == <<"A", "B">>

\* The arena c, the roots r and the locals l after a collection: a node stays
\* while a heap's root or a Merge's copy of a root leads to it.
StoreAll(c, r, l) ==
  LET nh == Len(HeapSeq)
      ng == Len(GoSeq)
      ProcAt(p) == CHOOSE i \in 1 .. Len(ProcSeq) : ProcSeq[i] = p
      GoAt(k) == CHOOSE i \in 1 .. ng : GoSeq[i] = k
  IN \E lv \in {l} :
     \E ptrs \in {[i \in 1 .. nh |-> r[HeapSeq[i]]]
                    \o [i \in 1 .. (Len(ProcSeq) * ng) |->
                          lv[ProcSeq[((i - 1) \div ng) + 1]].heap[GoSeq[((i - 1) % ng) + 1]].root]} :
     \E g \in {Collect(c, ptrs)} :
       /\ cells' = g.cells
       /\ root' = [h \in Heaps |-> g.ptrs[HeapAt(h)]]
       /\ loc' = [p \in Procs |->
                    [lv[p] EXCEPT !.heap = [k \in Gos |->
                       [lv[p].heap[k] EXCEPT !.root =
                          g.ptrs[nh + (ProcAt(p) - 1) * ng + GoAt(k)]]]]]

\* The locals of p after its operation has returned.
Done(l, p) == [l EXCEPT ![p] = [IdleMerge EXCEPT !.done = l[p].done + 1]]

\* The Puts that have been called and have not yet made their node.
PutsAhead == Cardinality({q \in Procs : pc[q] \in {"put_lock", "put_root"}})

\* p calls h.Put(v), the arena having a cell for the node.
StartPut(p) ==
  \E h \in Operands, v \in 0 .. MaxPutItem :
    /\ pc[p] = "idle"
    /\ loc[p].done < MaxCalls
    /\ FreeCount(cells) > PutsAhead
    /\ pc' = [pc EXCEPT ![p] = "put_lock"]
    /\ loc' = [loc EXCEPT ![p].h = h, ![p].value = v]
    /\ UNCHANGED <<cells, size, root, mutex, panic, last, net, run>>

\* heap.lock() of the heap of p's operation.
LockHeap(p, at, to) ==
  /\ pc[p] = at
  /\ CanLock(mutex[loc[p].h])
  /\ mutex' = [mutex EXCEPT ![loc[p].h] = p]
  /\ pc' = [pc EXCEPT ![p] = to]
  /\ UNCHANGED <<cells, size, root, panic, last, net, run, loc>>

LockPut(p) == LockHeap(p, "put_lock", "put_root")

\* if heap.Size() == 0 { heap.root = newNode } else { heap.root = heap.root.merge(newNode) }
RootPut(p) ==
  /\ pc[p] = "put_root"
  /\ LET h == loc[p].h
         newNode == Alloc(cells)
         c1 == [cells EXCEPT ![newNode] =
                  [left |-> NULL, right |-> NULL, value |-> loc[p].value]]
     IN \E r \in PutRoot(c1, size[h], root[h], newNode) :
          StoreAll(r.cells, [root EXCEPT ![h] = r.root], loc)
  /\ pc' = [pc EXCEPT ![p] = "put_size"]
  /\ UNCHANGED <<size, mutex, panic, last, net, run>>

\* heap.size++
SizePut(p) ==
  /\ pc[p] = "put_size"
  /\ size' = [size EXCEPT ![loc[p].h] = PutSize(size[loc[p].h])]
  /\ pc' = [pc EXCEPT ![p] = "put_unlock"]
  /\ UNCHANGED <<cells, root, mutex, panic, last, net, run, loc>>

\* An unlock that leaves the mutex held.
ReleaseMutant(m, h) == m

\* heap.unlock() in Put and in Take.
Release(m, h) == [m EXCEPT ![h] = Unlocked]

\* heap.unlock(), and Put returns.
UnlockPut(p) ==
  /\ pc[p] = "put_unlock"
  /\ mutex' = Release(mutex, loc[p].h)
  /\ pc' = [pc EXCEPT ![p] = "idle"]
  /\ loc' = Done(loc, p)
  /\ UNCHANGED <<cells, size, root, panic, last, net, run>>

\* p calls h.Take().
StartTake(p) ==
  \E h \in Operands :
    /\ pc[p] = "idle"
    /\ loc[p].done < MaxCalls
    /\ pc' = [pc EXCEPT ![p] = "take_lock"]
    /\ loc' = [loc EXCEPT ![p].h = h]
    /\ UNCHANGED <<cells, size, root, mutex, panic, last, net, run>>

LockTake(p) == LockHeap(p, "take_lock", "take_root")

\* if heap.Size() > 0 { value := heap.root.value; heap.root = heap.root.left.merge(heap.root.right)
RootTake(p) ==
  /\ pc[p] = "take_root"
  /\ LET h == loc[p].h
     IN /\ size[h] > 0
        /\ root[h] # NULL
        /\ \E r \in TakeRoot(cells, root[h]) :
             StoreAll(r.cells, [root EXCEPT ![h] = r.root],
                      [loc EXCEPT ![p].value = TakeValue(cells, root[h])])
  /\ pc' = [pc EXCEPT ![p] = "take_size"]
  /\ UNCHANGED <<size, mutex, panic, last, net, run>>

\* the size is not > 0: on to the unlock before return nil, errors.New("empty")
NoneTake(p) ==
  /\ pc[p] = "take_root"
  /\ ~(size[loc[p].h] > 0)
  /\ pc' = [pc EXCEPT ![p] = "take_empty"]
  /\ UNCHANGED <<cells, size, root, mutex, panic, last, net, run, loc>>

\* heap.size--
SizeTake(p) ==
  /\ pc[p] = "take_size"
  /\ size' = [size EXCEPT ![loc[p].h] = TakeSize(size[loc[p].h])]
  /\ pc' = [pc EXCEPT ![p] = "take_unlock"]
  /\ UNCHANGED <<cells, root, mutex, panic, last, net, run, loc>>

\* heap.unlock(); return value, nil
UnlockTake(p) ==
  /\ pc[p] = "take_unlock"
  /\ mutex' = Release(mutex, loc[p].h)
  /\ pc' = [pc EXCEPT ![p] = "idle"]
  /\ loc' = Done(loc, p)
  /\ UNCHANGED <<cells, size, root, panic, last, net, run>>

\* heap.unlock(); return nil, errors.New("empty")
UnlockTakeEmpty(p) ==
  /\ pc[p] = "take_empty"
  /\ mutex' = Release(mutex, loc[p].h)
  /\ pc' = [pc EXCEPT ![p] = "idle"]
  /\ loc' = Done(loc, p)
  /\ UNCHANGED <<cells, size, root, panic, last, net, run>>

\* The call copies the struct of operand g, size and root, into the
\* parameter that goroutine g will read.  No lock is held.
CopyHeap(l, p, g) ==
  [l EXCEPT ![p].heap[g] = [size |-> size[l[p].arg[g]], root |-> root[l[p].arg[g]]]]

\* p calls x.Merge(*y): the receiver *x is copied.
StartMerge(p) ==
  \E x \in Operands, y \in Operands :
    /\ x # y
    /\ pc[p] = "idle"
    /\ loc[p].done < MaxCalls
    /\ pc' = [pc EXCEPT ![p] = "merge_other"]
    /\ loc' = CopyHeap([loc EXCEPT ![p].arg = [g \in Gos |-> IF g = "A" THEN x ELSE y]],
                       p, "A")
    /\ UNCHANGED <<cells, size, root, mutex, panic, last, net, run>>

\* The argument *y is copied, and Merge runs up to its first <-ready:
\* go func() { ... }(), twice.
Fork(p) ==
  /\ pc[p] = "merge_other"
  /\ pc' = [pc EXCEPT ![p] = "merge_wait"]
  /\ loc' = CopyHeap([loc EXCEPT ![p].go = [g \in Gos |-> "lock"]], p, "B")
  /\ UNCHANGED <<cells, size, root, mutex, panic, last, net, run>>

\* heap.lock() (other.lock()) in goroutine g: the mutex is the operand's.
GoLock(p, g) ==
  /\ loc[p].go[g] = "lock"
  /\ CanLock(mutex[loc[p].arg[g]])
  /\ mutex' = [mutex EXCEPT ![loc[p].arg[g]] = Go(p, g)]
  /\ loc' = [loc EXCEPT ![p].go[g] = "copy"]
  /\ UNCHANGED <<cells, size, root, panic, last, net, run, pc>>

\* sizeA = heap.Size(); rootA = heap.root.copyNode(): size and root are those
\* of the struct the call copied, the nodes are read now.  The struct is not
\* read again.
GoCopy(p, g) ==
  /\ loc[p].go[g] = "copy"
  /\ \E rootG \in {Clone(cells, loc[p].heap[g].root)} :
       StoreAll(cells, root,
                [loc EXCEPT ![p].copy[g] = [size |-> loc[p].heap[g].size, root |-> rootG],
                            ![p].heap[g] = NoHeap,
                            ![p].go[g] = "unlock"])
  /\ UNCHANGED <<size, mutex, panic, last, net, run, pc>>

\* An unlock in Merge that leaves the mutex held.
GoReleaseMutant(m, h) == m

\* heap.unlock() (other.unlock()) in a goroutine of Merge.
GoRelease(m, h) == [m EXCEPT ![h] = Unlocked]

\* heap.unlock(); ready <- true: the channel has room for both goroutines, so
\* the send does not wait.
GoUnlock(p, g) ==
  /\ loc[p].go[g] = "unlock"
  /\ mutex' = GoRelease(mutex, loc[p].arg[g])
  /\ loc' = [loc EXCEPT ![p].go[g] = "done", ![p].ready = @ + 1]
  /\ UNCHANGED <<cells, size, root, panic, last, net, run, pc>>

\* A receive that does not wait.
CanReceiveMutant(n) == TRUE

\* <-ready returns once the channel holds a value.
CanReceive(n) == n > 0

\* <-ready at the statement at, which leads to the statement to.
Receive(p, at, to) ==
  /\ pc[p] = at
  /\ CanReceive(loc[p].ready)
  /\ loc' = [loc EXCEPT ![p].ready = @ - 1]
  /\ pc' = [pc EXCEPT ![p] = to]
  /\ UNCHANGED <<cells, size, root, mutex, panic, last, net, run>>

WaitFirst(p) == Receive(p, "merge_wait", "merge_wait2")
WaitSecond(p) == Receive(p, "merge_wait2", "merge_new")

\* newHeap := New(); newHeap.size += sizeA + sizeB; newHeap.root = rootA.merge(rootB)
NewHeap(p) ==
  /\ pc[p] = "merge_new"
  /\ \E t \in MergeClones(loc[p].copy["A"].root, loc[p].copy["B"].root) :
       loc' = [loc EXCEPT ![p].newHeap =
                 [size |-> MergeSize(loc[p].copy["A"].size, loc[p].copy["B"].size),
                  root |-> t]]
  /\ pc' = [pc EXCEPT ![p] = "merge_ret"]
  /\ UNCHANGED <<cells, size, root, mutex, panic, last, net, run>>

\* return newHeap
ReturnMerge(p) ==
  /\ pc[p] = "merge_ret"
  /\ pc' = [pc EXCEPT ![p] = "idle"]
  /\ loc' = Done(loc, p)
  /\ UNCHANGED <<cells, size, root, mutex, panic, last, net, run>>

NextMerge ==
  \E p \in Procs :
    \/ StartPut(p) \/ LockPut(p) \/ RootPut(p) \/ SizePut(p) \/ UnlockPut(p)
    \/ StartTake(p) \/ LockTake(p) \/ RootTake(p) \/ NoneTake(p) \/ SizeTake(p)
    \/ UnlockTake(p) \/ UnlockTakeEmpty(p)
    \/ StartMerge(p) \/ Fork(p) \/ WaitFirst(p) \/ WaitSecond(p) \/ NewHeap(p)
    \/ ReturnMerge(p)
    \/ \E g \in Gos : GoLock(p, g) \/ GoCopy(p, g) \/ GoUnlock(p, g)

SpecMerge == InitMerge /\ [][NextMerge]_vars

\* The next statement of an operation p has called, and of goroutine g of
\* its Merge.
Step(p) ==
  \/ LockPut(p) \/ RootPut(p) \/ SizePut(p) \/ UnlockPut(p)
  \/ LockTake(p) \/ RootTake(p) \/ NoneTake(p) \/ SizeTake(p)
  \/ UnlockTake(p) \/ UnlockTakeEmpty(p)
  \/ Fork(p) \/ WaitFirst(p) \/ WaitSecond(p) \/ NewHeap(p) \/ ReturnMerge(p)

GoStep(p, g) == GoLock(p, g) \/ GoCopy(p, g) \/ GoUnlock(p, g)

\* The scheduler runs every goroutine that can run.
Fair ==
  \A p \in Procs : WF_vars(Step(p) \/ \E g \in Gos : GoStep(p, g))

SpecMergeFair == SpecMerge /\ Fair

\* ------------------------------------------------------------ SpecSelf
\* A heap merged with itself: the program fills heap Self with Puts, then
\* its goroutines call Self.Merge(*Self).  Both struct copies of a call hold
\* the same *sync.Mutex and the same root, so the goroutines A and B of one
\* call, and those of every other call, lock the one mutex.
Self == "a"

InitSelf ==
  /\ cells = [k \in Addr |-> FreeCell]
  /\ size = [h \in Heaps |-> NewSize]
  /\ root = [h \in Heaps |-> NewRoot]
  /\ mutex = [h \in Heaps |-> Unlocked]
  /\ panic = FALSE
  /\ last = NoOp
  /\ net = [h \in Heaps |-> EmptyBag]
  /\ run = NewRun
  /\ pc = [p \in Procs |-> "idle"]
  /\ loc = [p \in Procs |-> IdleMerge]

\* No goroutine has made a call yet: the program is still filling the heap.
Setup == \A p \in Procs : pc[p] = "idle" /\ loc[p].done = 0

\* Self.Put(v) before the goroutines start, as in the loops of TestMerge.
Fill ==
  \E v \in 0 .. MaxPutItem :
    /\ Setup
    /\ size[Self] < MaxPut
    /\ Put(Self, v)
    /\ net' = [net EXCEPT ![Self] = BagAdd(@, v)]
    /\ UNCHANGED <<last, run, pc, loc>>

\* p calls Self.Merge(*Self): the receiver *Self is copied.
StartSelf(p) ==
  /\ pc[p] = "idle"
  /\ loc[p].done < MaxCalls
  /\ pc' = [pc EXCEPT ![p] = "merge_other"]
  /\ loc' = CopyHeap([loc EXCEPT ![p].arg = [g \in Gos |-> Self]], p, "A")
  /\ UNCHANGED <<cells, size, root, mutex, panic, last, net, run>>

NextSelf ==
  \/ Fill
  \/ \E p \in Procs :
       \/ StartSelf(p) \/ Fork(p) \/ WaitFirst(p) \/ WaitSecond(p) \/ NewHeap(p)
       \/ ReturnMerge(p)
       \/ \E g \in Gos : GoLock(p, g) \/ GoCopy(p, g) \/ GoUnlock(p, g)

SpecSelf == InitSelf /\ [][NextSelf]_vars

SpecSelfFair == SpecSelf /\ Fair

\* ------------------------------------------------------------ SpecNode
\* node.merge and node.copyNode by themselves, on the trees the heaps hold
\* after any sequence of Put, Take and Merge: one application, in place, with
\* the arena as it was before kept in loc.  pc is <<>> until then.
Applied(fn, heap, other, result) ==
  [fn |-> fn, heap |-> heap, other |-> other, before |-> cells, result |-> result]

\* The heaps are built: a step of Spec.
Build ==
  /\ pc = <<>>
  /\ Next

\* root[x].merge(root[y]), the trees of two different heaps.
NodeMerge ==
  \E x \in Heaps, y \in Heaps :
    /\ pc = <<>>
    /\ x # y
    /\ \E r \in merge(cells, root[x], root[y]) :
         /\ cells' = r.cells
         /\ loc' = Applied("merge", root[x], root[y], r.root)
    /\ pc' = <<"merge">>
    /\ UNCHANGED <<size, root, mutex, panic, last, net, run>>

\* root[x].copyNode()
NodeCopy ==
  \E x \in Heaps :
    /\ pc = <<>>
    /\ Count(cells, root[x]) <= FreeCount(cells)
    /\ \E k \in {copyNode(cells, root[x])} :
         /\ cells' = k.cells
         /\ loc' = Applied("copyNode", root[x], NULL, k.root)
    /\ pc' = <<"copyNode">>
    /\ UNCHANGED <<size, root, mutex, panic, last, net, run>>

NextNode == Build \/ NodeMerge \/ NodeCopy

SpecNode == Init /\ [][NextNode]_vars

\* ------------------------------------------------------------ claims
\* The items heap h holds: those of the nodes its root leads to.
Held(c, r, h) == TreeBag(c, r[h])

\* s is in ascending order of priority, strictly between different items.
Ascending(s) ==
  \A i \in 1 .. Len(s), j \in 1 .. Len(s) :
    i < j => /\ Priority(s[i]) <= Priority(s[j])
             /\ (s[i] # s[j] => Priority(s[i]) < Priority(s[j]))

\* C1: while the history of a new heap is N puts followed by at most N
\* takes, none of the takes has failed and the items taken so far are in
\* ascending order of priority (strictly where they differ).
C1_DrainAscending ==
  run.on => /\ ~run.failed
            /\ Len(run.outs) <= run.n
            /\ Ascending(run.outs)
            /\ (Len(run.outs) = run.n => size[Q] = 0)

\* C1's case: three different items were put and all three taken back.
C1_Witness ==
  /\ run.on
  /\ run.n = 3
  /\ run.outs = <<2, 1, 0>>

\* C2: a Take that succeeds returns an item of the least priority among the
\* items the heap holds, and the heap holds afterwards what it held before
\* less that one item; a Put adds exactly its item.
C2_TakeRemovesMinimum ==
  [][ LET before == Held(cells, root, Q)
          after == Held(cells', root', Q)
          v == last'.val
      IN /\ (last'.op = "Take" /\ last'.ok) =>
               /\ before[v] > 0
               /\ \A i \in Items : before[i] > 0 => Priority(v) <= Priority(i)
               /\ after = BagDel(before, v)
         /\ last'.op = "Put" => after = BagAdd(before, v) ]_vars

\* C2's case: a Take returned the least of three items, between puts.
C2_Witness ==
  /\ last.op = "Take"
  /\ last.ok
  /\ last.val = 2
  /\ ~run.on
  /\ Held(cells, root, Q) = BagAdd(BagAdd(EmptyBag, 0), 1)

\* The item sequences that taking from a heap of root rt and size sz until
\* Take says "empty" may give (none when Take would reach a nil root).
RECURSIVE Drains(_, _, _)
Drains(c, rt, sz) ==
  IF ~(sz > 0) THEN {<<>>}
  ELSE IF rt = NULL THEN {}
  ELSE UNION { { <<TakeValue(c, rt)>> \o d : d \in Drains(r.cells, r.root, TakeSize(sz)) } :
               r \in TakeRoot(c, rt) }

RECURSIVE SeqBag(_)
SeqBag(s) == IF s = <<>> THEN EmptyBag ELSE BagAdd(SeqBag(Tail(s)), Head(s))

\* C3: the heap Merge returns has the sum of its operands' sizes, and every
\* way of draining it gives that many items, in ascending order of priority,
\* which are the items of the one operand together with those of the other.
C3_MergeIsSortedUnion ==
  [][ last'.op = "Merge" =>
        LET x == last'.h
            y == last'.o
            ds == Drains(cells', root'[Result], size'[Result])
        IN /\ size'[Result] = size[x] + size[y]
           /\ ds # {}
           /\ \A d \in ds :
                /\ Len(d) = size[x] + size[y]
                /\ Ascending(d)
                /\ SeqBag(d) = BagSum(Held(cells, root, x), Held(cells, root, y)) ]_vars

\* C3's case: a heap of two items was merged with a heap of one.
C3_Witness ==
  /\ last = Did("Merge", "a", "b", NoItem, TRUE, 0)
  /\ size = [h \in Heaps |-> IF h = "a" THEN 2 ELSE IF h = "b" THEN 1 ELSE 3]
  /\ Held(cells, root, "a") = BagAdd(BagAdd(EmptyBag, 0), 1)
  /\ Held(cells, root, "b") = BagAdd(EmptyBag, 1)
  /\ Held(cells, root, "c") = BagAdd(BagAdd(BagAdd(EmptyBag, 0), 1), 1)

\* C4: Merge leaves each operand as it was: its size, its root, every node
\* its root leads to, hence its shape and what draining it gives.
C4_MergeKeepsOperands ==
  [][ last'.op = "Merge" =>
        \A h \in {last'.h, last'.o} \ {Result} :
          /\ size'[h] = size[h]
          /\ root'[h] = root[h]
          /\ \A a \in Reach(cells, {root[h]}) : cells'[a] = cells[a]
          /\ Tree(cells', root'[h]) = Tree(cells, root[h])
          /\ Drains(cells', root'[h], size'[h]) = Drains(cells, root[h], size[h]) ]_vars

\* C4's case: a heap of two items and a heap of one item were merged.
C4_Witness ==
  /\ last = Did("Merge", "b", "a", NoItem, TRUE, 0)
  /\ size["a"] = 1
  /\ size["b"] = 2
  /\ size["c"] = 3

\* C5: no node is reachable from the roots of two heaps, and a Put or a Take
\* on one heap leaves the size and the tree of every other heap as they were.
C5_HeapsDisjoint ==
  /\ [](\A g \in Heaps, h \in Heaps :
          g # h => Reach(cells, {root[g]}) \cap Reach(cells, {root[h]}) = {})
  /\ [][ last'.op \in {"Put", "Take"} =>
           \A g \in Heaps \ {last'.h} :
             /\ size'[g] = size[g]
             /\ Tree(cells', root'[g]) = Tree(cells, root[g]) ]_vars

\* C5's case: after a merge of two heaps into a third of three items, one
\* operand was drained while the result still holds its three items.
C5_Witness ==
  /\ last.op = "Take"
  /\ last.h = "b"
  /\ size = [h \in Heaps |-> IF h = "a" THEN 2 ELSE IF h = "b" THEN 0 ELSE 3]
  /\ Held(cells, root, "c") = BagAdd(BagAdd(BagAdd(EmptyBag, 0), 1), 1)

\* C6: size is the number of puts minus the number of takes that succeeded
\* (the size of the bag net), and a Take of an empty heap fails and leaves
\* size at 0, the root nil and the nodes as they were.
C6_SizeCounts ==
  /\ [](size[Q] = BagSize(net[Q]))
  /\ [][ (last'.op = "Take" /\ ~last'.ok) =>
           /\ size[Q] = 0
           /\ size'[Q] = 0
           /\ root'[Q] = NULL
           /\ UNCHANGED <<cells, size, root>> ]_vars

\* C6's case: two puts, two takes, and then a take that failed.
C6_Witness ==
  /\ last.op = "Take"
  /\ ~last.ok
  /\ run.on
  /\ run.n = 2
  /\ Len(run.outs) = 2
  /\ size[Q] = 0

\* C7: Top changes neither size, root nor any node, and a Top that follows
\* a Top, or a Take that follows a Top, returns what that Top returned.
C7_TopIsPure ==
  [][ /\ last'.op = "Top" => UNCHANGED <<cells, size, root>>
      /\ (last.op = "Top" /\ last'.op \in {"Top", "Take"}) =>
           /\ last'.ok = last.ok
           /\ last'.val = last.val ]_vars

\* C7's case: a Take that succeeded right after two Tops, items left.
C7_Witness ==
  /\ last.op = "Take"
  /\ last.ok
  /\ last.tops = 2
  /\ size[Q] = 2

\* C8: Top and Take return the error, and no item, exactly when the heap
\* holds no node at the call, and an item of the heap otherwise; Put returns
\* no error; and size is 0 exactly when the root is nil, so that one of the
\* two answers is always given.
C8_EmptyError ==
  /\ [](size[Q] > 0 <=> root[Q] # NULL)
  /\ [][ /\ last'.op \in {"Top", "Take"} =>
              /\ last'.ok <=> Count(cells, root[Q]) > 0
              /\ last'.ok => Held(cells, root, Q)[last'.val] > 0
              /\ ~last'.ok => last'.val = NoItem
         /\ last'.op = "Put" => last'.ok ]_vars

\* C8's case: Top of a heap drained back to empty returned the error.
C8_Witness ==
  /\ last.op = "Top"
  /\ ~last.ok
  /\ run.on
  /\ run.n = 2
  /\ Len(run.outs) = 2

\* The statements between heap.lock() and heap.unlock().
Critical ==
  {"put_root", "put_size", "put_unlock", "take_root", "take_size", "take_unlock",
   "take_empty"}

\* C9: at most one goroutine is between lock and unlock, and it holds the
\* mutex; and whenever nobody holds the mutex, size is the number of nodes
\* under the root and the heap holds exactly the items the completed Puts
\* gave it less those the completed Takes returned (net), as after the same
\* operations run one after the other.
C9_MutationsAtomic ==
  /\ Cardinality({p \in Procs : pc[p] \in Critical}) <= 1
  /\ \A p \in Procs : pc[p] \in Critical => mutex[Q] = p
  /\ mutex[Q] = Unlocked =>
       /\ size[Q] = Count(cells, root[Q])
       /\ size[Q] = BagSize(net[Q])
       /\ Held(cells, root, Q) = net[Q]

\* C9's case: one goroutine is inside Put, the new root stored and the size
\* not yet counted up, while the other waits in Take for the mutex.
C9_Witness ==
  /\ pc["p1"] = "put_size"
  /\ pc["p2"] = "take_lock"
  /\ size[Q] = 1
  /\ Count(cells, root[Q]) = 2

\* C10: a Top that runs beside Puts and Takes returns "empty" or the value
\* of a root: it never finds the size > 0 and then the root nil.
C10_TopSeesWholeStates == ~panic

\* C11: the size and the tree a goroutine of Merge has copied are, while it
\* still holds the operand's mutex, the size and the tree of the operand; and
\* the heap Merge returns has as its size the number of its nodes.
C11_MergeSnapshot ==
  \A p \in Procs :
    /\ \A g \in Gos :
         loc[p].go[g] = "unlock" =>
           /\ mutex[loc[p].arg[g]] = Go(p, g)
           /\ loc[p].copy[g].size = size[loc[p].arg[g]]
           /\ loc[p].copy[g].root = Tree(cells, root[loc[p].arg[g]])
    /\ pc[p] = "merge_ret" =>
         loc[p].newHeap.size = TreeCount(loc[p].newHeap.root)

\* The goroutines: the callers and the two goroutines of each caller's Merge.
Tasks == Procs \cup {Go(p, g) : p \in Procs, g \in Gos}

\* The mutexes task t holds.
Locks(t) == {h \in Heaps : mutex[h] = t}

\* C12: no goroutine holds the mutexes of two heaps, and a Merge that has
\* received both its ready signals, so that it makes and returns the new
\* heap, holds no mutex, itself or through its goroutines.
C12_OneLockAtATime ==
  /\ \A t \in Tasks : Cardinality(Locks(t)) <= 1
  /\ \A p \in Procs :
       pc[p] \in {"merge_new", "merge_ret"} =>
         Locks(p) \cup Locks(Go(p, "A")) \cup Locks(Go(p, "B")) = {}

\* C12's case: p1's Merge is about to merge its two copies while p2 is inside
\* a Put on one of the operands, holding its mutex.
C12_Witness ==
  /\ pc["p1"] = "merge_new"
  /\ pc["p2"] = "put_size"
  /\ mutex[loc["p2"].h] = "p2"
  /\ loc["p2"].h = loc["p1"].arg["A"]

\* C13: under fair scheduling every operation that was called returns.
C13_Completes == \A p \in Procs : (pc[p] # "idle") ~> (pc[p] = "idle")

\* C13's case: a.Merge(*b) and b.Merge(*a) run together, each has locked its
\* receiver and waits for the mutex of its argument, which the other holds.
C13_Witness ==
  /\ pc["p1"] = "merge_wait"
  /\ pc["p2"] = "merge_wait"
  /\ loc["p1"].arg = [g \in Gos |-> IF g = "A" THEN "a" ELSE "b"]
  /\ loc["p2"].arg = [g \in Gos |-> IF g = "A" THEN "b" ELSE "a"]
  /\ mutex["a"] = Go("p1", "A")
  /\ mutex["b"] = Go("p2", "A")
  /\ loc["p1"].go["B"] = "lock"
  /\ loc["p2"].go["B"] = "lock"

\* C20: a goroutine whose operation has returned holds no mutex, nor does a
\* goroutine of Merge that has sent its ready signal; so with no operation
\* under way every mutex is free for the next one.
C20_ReturnsUnlocked ==
  /\ \A p \in Procs :
       /\ pc[p] = "idle" => Locks(p) \cup Locks(Go(p, "A")) \cup Locks(Go(p, "B")) = {}
       /\ \A g \in Gos : loc[p].go[g] \in {"off", "done"} => Locks(Go(p, g)) = {}
  /\ (\A p \in Procs : pc[p] = "idle") => \A h \in Heaps : mutex[h] = Unlocked

\* C20's case: p1's Take has emptied heap a and returned, and p2's Take of the
\* same heap has locked it and found it empty.
C20_Witness ==
  /\ pc["p1"] = "idle"
  /\ loc["p1"].done = 1
  /\ pc["p2"] = "take_empty"
  /\ loc["p2"].h = "a"
  /\ mutex["a"] = "p2"

\* The tree at n has the min-heap property: no node has a child of lower
\* priority.
MinHeap(c, n) ==
  \A a \in Reach(c, {n}) :
    /\ c[a].left # NULL => priority(c[a]) <= priority(c[c[a].left])
    /\ c[a].right # NULL => priority(c[a]) <= priority(c[c[a].right])

\* C14: after any sequence of Put, Take and Merge every heap, operand or
\* result of a Merge, has the min-heap property at every node.
C14_MinHeap == \A h \in Heaps : MinHeap(cells, root[h])

\* C14's case: a Merge has returned a heap of three nodes, of different
\* priorities, whose root has two children.
C14_Witness ==
  /\ last.op = "Merge"
  /\ size[Result] = 3
  /\ cells[root[Result]].left # NULL
  /\ cells[root[Result]].right # NULL
  /\ Held(cells, root, Result)[0] > 0
  /\ Held(cells, root, Result)[1] > 0

\* C15: after any sequence of Put, Take and Merge run one at a time, every
\* heap has a nil root exactly when its size is 0, and its size is the number
\* of nodes under its root.
C15_RootAndSize ==
  \A h \in Heaps :
    /\ root[h] = NULL <=> size[h] = 0
    /\ size[h] = Count(cells, root[h])

\* C15's case: the heap a Merge returned was emptied by Takes while an
\* operand still holds its items.
C15_Witness ==
  /\ last = Did("Take", Result, Result, NoItem, TRUE, 0)
  /\ size[Result] = 0
  /\ root[Result] = NULL
  /\ size["a"] = 2
  /\ size["b"] = 1

\* The nodes n leads to form a proper binary tree: n has no parent among
\* them and every other one exactly one, as the left or the right child.
IsTree(c, n) ==
  LET S == Reach(c, {n})
  IN \A a \in S :
       Cardinality({e \in S \X {"left", "right"} : c[e[1]][e[2]] = a})
         = IF a = n THEN 0 ELSE 1

\* The right spine of the tree at n: n, its right child, and so on.
RECURSIVE Spine(_, _)
Spine(c, n) == IF n = NULL THEN <<>> ELSE <<n>> \o Spine(c, c[n].right)

\* The first k nodes on the path of left children from n.
RECURSIVE LeftPath(_, _, _)
LeftPath(c, n, k) ==
  IF k = 0 \/ n = NULL THEN <<>> ELSE <<n>> \o LeftPath(c, c[n].left, k - 1)

\* node.merge was applied, to the trees at loc.heap and loc.other.
Merged == pc = <<"merge">>
\* node.copyNode was applied, to the tree at loc.heap.
Copied == pc = <<"copyNode">>

\* C16: the nodes under the root merge returns are the nodes of its two
\* (disjoint) inputs, none lost and none twice, each with the value it had,
\* and they form a proper binary tree.
C16_MergeConsumesBoth ==
  Merged =>
    LET in == Reach(loc.before, {loc.heap}) \cup Reach(loc.before, {loc.other})
        out == Reach(cells, {loc.result})
    IN /\ Reach(loc.before, {loc.heap}) \cap Reach(loc.before, {loc.other}) = {}
       /\ out = in
       /\ \A a \in out : cells[a].value = loc.before[a].value
       /\ IsTree(cells, loc.result)
       /\ loc.result = NULL <=> (loc.heap = NULL /\ loc.other = NULL)

\* C16's case: two trees of two nodes each were merged.
C16_Witness ==
  /\ Merged
  /\ Cardinality(Reach(loc.before, {loc.heap})) = 2
  /\ Cardinality(Reach(loc.before, {loc.other})) = 2
  /\ Cardinality(Reach(cells, {loc.result})) = 4

\* C17: merged from two trees that are not nil (and are min-heaps, as every
\* tree of a heap is), the root merge returns has the least priority of all
\* the nodes of both.
C17_MergeRootIsMinimum ==
  (Merged /\ loc.heap # NULL /\ loc.other # NULL) =>
    /\ MinHeap(loc.before, loc.heap)
    /\ MinHeap(loc.before, loc.other)
    /\ loc.result # NULL
    /\ \A a \in Reach(loc.before, {loc.heap}) \cup Reach(loc.before, {loc.other}) :
         Priority(cells[loc.result].value) <= Priority(loc.before[a].value)

\* C17's case: the root returned is the root of the second tree, which holds
\* an item of lower priority than any of the first.
C17_Witness ==
  /\ Merged
  /\ loc.heap # NULL
  /\ loc.result = loc.other
  /\ Cardinality(Reach(loc.before, {loc.heap})) = 2
  /\ \A a \in Reach(loc.before, {loc.heap}) :
       Priority(loc.before[loc.other].value) < Priority(loc.before[a].value)

\* C18: merge of two trees that are not nil changes only the nodes of their
\* two right spines.  From the root it returns, the path of left children
\* runs through exactly these nodes, in ascending order of priority; each but
\* the last has its former left subtree as its right child; the last keeps
\* its former left child (where the path goes on) and has no right child.
C18_MergeFoldsSpines ==
  (Merged /\ loc.heap # NULL /\ loc.other # NULL) =>
    LET b == loc.before
        spines == Spine(b, loc.heap) \o Spine(b, loc.other)
        k == Len(spines)
        path == LeftPath(cells, loc.result, k)
    IN /\ \A a \in Addr :
            (\A i \in 1 .. k : spines[i] # a) => cells[a] = b[a]
       /\ Len(path) = k
       /\ {path[i] : i \in 1 .. k} = {spines[i] : i \in 1 .. k}
       /\ \A i \in 1 .. k :
            /\ cells[path[i]].value = b[path[i]].value
            /\ i < k => /\ Priority(b[path[i]].value) <= Priority(b[path[i + 1]].value)
                        /\ cells[path[i]].left = path[i + 1]
                        /\ cells[path[i]].right = b[path[i]].left
            /\ i = k => /\ cells[path[i]].left = b[path[i]].left
                        /\ cells[path[i]].right = NULL

\* C18's case: the first tree has a right spine of two nodes, its root has a
\* left child too, and the second tree is one node.
C18_Witness ==
  /\ Merged
  /\ loc.other # NULL
  /\ loc.heap # NULL
  /\ Len(Spine(loc.before, loc.heap)) = 2
  /\ loc.before[loc.heap].left # NULL
  /\ Len(Spine(loc.before, loc.other)) = 1

\* C19: copyNode of nil is nil; of a tree, it is a tree of the same shape
\* with the same value at every place, made of nodes that were not in use
\* before, and no node that was in use has changed.
C19_CopyNode ==
  Copied =>
    LET b == loc.before
        new == Reach(cells, {loc.result})
    IN /\ loc.heap = NULL => loc.result = NULL
       /\ Tree(cells, loc.result) = Tree(b, loc.heap)
       /\ IsTree(cells, loc.result)
       /\ \A a \in new : IsFree(b, a)
       /\ new \cap Reach(cells, {loc.heap}) = {}
       /\ \A a \in Addr : ~IsFree(b, a) => cells[a] = b[a]

\* C19's case: a tree of three nodes whose root has two children was copied.
C19_Witness ==
  /\ Copied
  /\ loc.heap # NULL
  /\ loc.before[loc.heap].left # NULL
  /\ loc.before[loc.heap].right # NULL
  /\ Cardinality(Reach(cells, {loc.result})) = 3
  /\ Reach(cells, {loc.result}) \cap Reach(cells, {loc.heap}) = {}

\* The arena, with room for the copy, after the heap.root.copyNode() that
\* goroutine g of p's Merge is about to run, and the copy's root.
SelfCopy(p, g) ==
  Only({ copyNode(Room(cells, Count(cells, src)), src) : src \in {loc[p].heap[g].root} })

\* Each copy a goroutine of Self.Merge(*Self) makes is the tree of Self, on
\* nodes that were not in use and that Self does not reach, and no node in
\* use changes; the size and the tree it hands over are those of Self.
SelfCopies ==
  \A p \in Procs, g \in Gos :
    /\ loc[p].go[g] = "copy" =>
         \E k \in {SelfCopy(p, g)} :
           /\ mutex[Self] = Go(p, g)
           /\ Tree(k.cells, k.root) = Tree(cells, root[Self])
           /\ \A a \in Reach(k.cells, {k.root}) :
                /\ a \notin Reach(cells, {root[Self]})
                /\ a \in Addr => IsFree(cells, a)
           /\ \A a \in Addr : ~IsFree(cells, a) => k.cells[a] = cells[a]
    /\ loc[p].go[g] \in {"unlock", "done"} =>
         /\ loc[p].copy[g].size = size[Self]
         /\ loc[p].copy[g].root = Tree(cells, root[Self])

\* The heap Self.Merge(*Self) returns: twice the size of Self, that many
\* nodes, each item of Self twice, in min-heap order.
SelfResult ==
  \A p \in Procs :
    pc[p] = "merge_ret" =>
      /\ loc[p].newHeap.size = 2 * size[Self]
      /\ TreeCount(loc[p].newHeap.root) = 2 * size[Self]
      /\ TreeItems(loc[p].newHeap.root) = BagSum(Held(cells, root, Self), Held(cells, root, Self))
      /\ size[Self] = Count(cells, root[Self])

\* A step of a Merge leaves Self as it was: its size, its tree and its items.
SelfKept ==
  ~Setup' =>
    /\ size'[Self] = size[Self]
    /\ Tree(cells', root'[Self]) = Tree(cells, root[Self])
    /\ net'[Self] = net[Self]

\* C21: Self.Merge(*Self) returns (its two goroutines, and those of the other
\* calls, take the one mutex one after the other), leaves Self unchanged,
\* and returns a heap of size 2 * Self.size that holds each item of Self
\* exactly twice, on nodes that are not nodes of Self.
C21_SelfMerge ==
  /\ [](SelfCopies /\ SelfResult)
  /\ [][SelfKept]_vars
  /\ \A p \in Procs : (pc[p] = "merge_wait") ~> (pc[p] = "merge_ret")

\* C21's case: a heap of MaxPut items was merged with itself, the merged heap
\* is about to be returned, while another call of the same Merge has a
\* goroutine waiting for the mutex the other goroutine of that call holds.
C21_Witness ==
  \E p \in Procs, q \in Procs :
    /\ p # q
    /\ size[Self] = MaxPut
    /\ pc[p] = "merge_ret"
    /\ loc[p].newHeap.size = 2 * MaxPut
    /\ pc[q] = "merge_wait"
    /\ loc[q].go["A"] = "lock"
    /\ loc[q].go["B"] = "copy"
    /\ mutex[Self] = Go(q, "B")

====
